---------------------------- MODULE Spec2Model ----------------------------
(***************************************************************************)
(* A model of node-stepify's Step (src/lib/Step.js): the control handle    *)
(* a Task gives to each step handler.  The Task side that Step.js calls    *)
(* into (_getStep, _run, emit, _result, _variables) is not part of src/    *)
(* and is modelled from the specification's sections 3 and 4.1.            *)
(*                                                                         *)
(* JavaScript is single threaded: the model keeps the call stack of the    *)
(* user code that is executing (step handlers, continuations, parallel     *)
(* branches).  One action is one call from user code into Step.js, run     *)
(* up to the point where Step.js enters user code again or returns.        *)
(***************************************************************************)
EXTENDS Integers, Sequences, FiniteSets, TLC

\* Bounds of the exploration.
MaxSteps == 2
MaxCalls == 3
MaxParCalls == 3
MaxBranches == 2
MaxDataCalls == 3
MaxSkipSteps == 3
MaxSkipCalls == 3

VARIABLES
    nSteps,     \* task._steps.length, fixed at construction
    currIndex,  \* task._currIndex
    emitted,    \* the err of every 'done' event the task has emitted, in order
    runs,       \* every handler invocation made by task._run: [index, args]
    stack,      \* frames of code executing now, the innermost last
    pars,       \* the closure state of every parallel() call made
    cbCalls,    \* every invocation of a continuation handed to done: [h, args]
    calls,      \* the number of calls user code has made into Step.js
    nextCalls,  \* per step handle, the number of next() calls made on it
    otherCalls, \* the number of flow-control and parallel calls made that
                \* are not next()
    last,       \* the latest call user code made into Step.js
    variables,  \* per Task, task._variables: the shared variable store
    results,    \* per Task, what task._result has accumulated
    written,    \* per Task and key, the value of the latest vars(key, value)
    handed      \* per Task, the arguments of every fulfill call, in order

vars == <<nSteps, currIndex, emitted, runs, stack, pars, cbCalls, calls,
          nextCalls, otherCalls, last, variables, results, written, handed>>

-----------------------------------------------------------------------------
\* JavaScript values.  k is the typeof class, s a string or a function's
\* name, n a number, a an array's elements.
Val(k, s, n, a) == [k |-> k, s |-> s, n |-> n, a |-> a]
Undefined == Val("undefined", "", 0, <<>>)
Null == Val("null", "", 0, <<>>)
False == Val("boolean", "false", 0, <<>>)
Str(s) == Val("string", s, 0, <<>>)
Num(n) == Val("number", "", n, <<>>)
Fn(s) == Val("function", s, 0, <<>>)
Arr(a) == Val("array", "", 0, a)
\* An index of an array that was never assigned.
Hole == Val("hole", "", 0, <<>>)

\* if(err): undefined, null and false are falsy.  The model's numbers are
\* used as step references only and its strings are never empty.
Truthy(v) == v.k \notin {"undefined", "null", "boolean", "hole"}

isFunction(v) == v.k = "function"

\* err || null
OrNull(v) == IF Truthy(v) THEN v ELSE Null

\* util.slice(arguments, i): the arguments from position i (0-based) on.
slice(args, i) == SubSeq(args, i + 1, Len(args))

\* arguments[i] (0-based), undefined past the end.
Arg(args, i) == IF i + 1 <= Len(args) THEN args[i + 1] ELSE Undefined

-----------------------------------------------------------------------------
\* The task's step names, in declaration order.
StepNames == <<"load", "process", "save", "report", "cleanup">>

NotFound == -1

\* Two Task instances: the one whose steps the model runs, and another one
\* that user code holds a Step of.
Main == "task"
Tasks == {Main, "other"}

\* The keys user code stores variables under.
VarKeys == {"x", "y"}

\* A frame of the call stack: a step handler ("handler", of step h), a
\* continuation given to done ("cb", this = h), a branch of a parallel call
\* ("branch", of parallel p, index n), an aggregation callback ("aggr"), or
\* the each loop of a parallel call that is dispatching ("each", n = the
\* next index to dispatch).
Frame(k, h, p, n) == [k |-> k, h |-> h, p |-> p, n |-> n]

UserKinds == {"handler", "cb", "branch", "aggr"}

\* The machine state the operators below transform.  thrown is the message
\* of the Error the call raised, "" when it returned normally.
\* ret is the value the call returned to user code.
Cur == [currIndex |-> currIndex, emitted |-> emitted, runs |-> runs,
        stack |-> stack, pars |-> pars, cbCalls |-> cbCalls, thrown |-> "",
        variables |-> variables, results |-> results, ret |-> Undefined]

Throw(S, msg) == [S EXCEPT !.thrown = msg]

\* task.emit('done', err)
emit(S, err) == [S EXCEPT !.emitted = Append(@, err)]

\* task._getStep(key): by name or by absolute index; not found otherwise.
_getStep(key) ==
    IF key.k = "string"
    THEN IF \E i \in 1..nSteps : StepNames[i] = key.s
         THEN (CHOOSE i \in 1..nSteps : StepNames[i] = key.s) - 1
         ELSE NotFound
    ELSE IF key.k = "number" /\ key.n >= 0 /\ key.n < nSteps
         THEN key.n
         ELSE NotFound

\* task._run(index, ...args): move the cursor and invoke the step's handler.
_run(S, index, args) ==
    [S EXCEPT !.currIndex = index,
              !.runs = Append(@, [index |-> index, args |-> args]),
              !.stack = Append(@, Frame("handler", index, 0, 0))]

\* end moving on to the following step where there is one.
endAdvances(S, h, err) ==
    IF S.currIndex + 1 < nSteps
    THEN _run(S, S.currIndex + 1, <<>>)
    ELSE emit(S, OrNull(err))

\* Step.prototype.end
end(S, h, err) == emit(S, OrNull(err))

\* targetStep with the relative offset subtracted instead of added.
targetStepWrongSign(S, step) ==
    IF step.k = "string" THEN _getStep(step)
    ELSE IF step.k = "number"
         THEN _getStep(IF step.n < 0 THEN Num(S.currIndex - step.n) ELSE step)
         ELSE NotFound

\* targetStep with a relative offset below the first step clamped to it.
targetStepClamped(S, step) ==
    IF step.k = "string" THEN _getStep(step)
    ELSE IF step.k = "number"
         THEN _getStep(IF step.n < 0
                       THEN Num(IF S.currIndex + step.n < 0
                                THEN 0 ELSE S.currIndex + step.n)
                       ELSE step)
         ELSE NotFound

\* The targetStep closure of Step.prototype.jump.
targetStep(S, step) ==
    IF step.k = "string" THEN _getStep(step)
    ELSE IF step.k = "number"
         THEN _getStep(IF step.n < 0 THEN Num(S.currIndex + step.n) ELSE step)
         ELSE NotFound

\* jump without the test for the step that is current already.
jumpNoSelfCheck(S, h, args) ==
    LET step == Arg(args, 0) IN
    IF step = Undefined
    THEN Throw(S, "You must access the step you wish to jump to.")
    ELSE LET targetIndex == targetStep(S, step) IN
         IF targetIndex = NotFound
         THEN Throw(S, "The target step will jump to was not exists.")
         ELSE _run(S, targetIndex, slice(args, 1))

\* Step.prototype.jump(step, ...args)
jump(S, h, args) ==
    LET step == Arg(args, 0) IN
    IF step = Undefined
    THEN Throw(S, "You must access the step you wish to jump to.")
    ELSE LET targetIndex == targetStep(S, step) IN
         IF targetIndex = NotFound
         THEN Throw(S, "The target step will jump to was not exists.")
         ELSE IF targetIndex = S.currIndex
              THEN S
              ELSE _run(S, targetIndex, slice(args, 1))

\* next with the bound test off by one: it jumps past the last step.
nextOffByOne(S, h, args) ==
    IF S.currIndex + 1 <= nSteps
    THEN jump(S, h, <<Num(S.currIndex + 1)>> \o args)
    ELSE end(S, h, Undefined)

\* next counting from the step the handle belongs to, not from the cursor.
nextFromHandle(S, h, args) ==
    IF h + 1 < nSteps
    THEN jump(S, h, <<Num(h + 1)>> \o args)
    ELSE end(S, h, Undefined)

\* Step.prototype.next(...args)
next(S, h, args) ==
    IF S.currIndex + 1 < nSteps
    THEN jump(S, h, <<Num(S.currIndex + 1)>> \o args)
    ELSE end(S, h, Undefined)

\* callback.apply(this, args) for a continuation given to done.
applyCallback(S, h, args) ==
    [S EXCEPT !.cbCalls = Append(@, [h |-> h, args |-> args]),
              !.stack = Append(@, Frame("cb", h, 0, 0))]

\* done that hands a supplied callback the error instead of ending.
doneCallbackFirst(S, h, arguments) ==
    LET err == Arg(arguments, 0)
        args == slice(arguments, 1)
        hasCallback == isFunction(Arg(args, 0))
        rest == IF hasCallback THEN slice(args, 1) ELSE args
    IN IF hasCallback
       THEN applyCallback(S, h, rest)
       ELSE IF Truthy(err) THEN end(S, h, err) ELSE next(S, h, rest)

\* done that leaves the callback in the arguments it forwards.
doneKeepsCallback(S, h, arguments) ==
    LET err == Arg(arguments, 0)
        args == slice(arguments, 1)
        hasCallback == isFunction(Arg(args, 0))
    IN IF Truthy(err)
       THEN end(S, h, err)
       ELSE IF hasCallback
            THEN applyCallback(S, h, args)
            ELSE next(S, h, args)

\* Step.prototype.done(err[, callback], ...args)
done(S, h, arguments) ==
    LET err == Arg(arguments, 0)
        args == slice(arguments, 1)
        hasCallback == isFunction(Arg(args, 0))
        rest == IF hasCallback THEN slice(args, 1) ELSE args
    IN IF Truthy(err)
       THEN end(S, h, err)
       ELSE IF hasCallback
            THEN applyCallback(S, h, rest)
            ELSE next(S, h, rest)

-----------------------------------------------------------------------------
\* task._result(value): the Task's accumulator appends the value.
_result(S, t, value) == [S EXCEPT !.results[t] = Append(@, value)]

\* args.forEach(fn.bind(task)): one accumulator call per argument, in order.
RECURSIVE forEach(_, _, _)
forEach(S, t, args) ==
    IF Len(args) = 0 THEN S
    ELSE forEach(_result(S, t, Head(args)), t, Tail(args))

\* fulfill handing over its named parameter only.
fulfillNamedOnly(S, t, h, arguments) == _result(S, t, Arg(arguments, 0))

\* fulfill completing the step as well.
fulfillCompletes(S, t, h, arguments) ==
    LET S1 == forEach(S, t, slice(arguments, 0))
    IN IF t = Main THEN next(S1, h, <<>>) ELSE S1

\* Step.prototype.fulfill(...values), on step h of Task t
fulfill(S, t, h, arguments) == forEach(S, t, slice(arguments, 0))

\* vars writing whenever a value is given, whatever else follows it.
stepVarsAnyValue(S, t, h, arguments) ==
    LET len == Len(arguments)
        key == Arg(arguments, 0)
        value == Arg(arguments, 1)
    IN IF len = 1
       THEN [S EXCEPT !.ret = S.variables[t][key.s]]
       ELSE IF len >= 2
            THEN [S EXCEPT !.variables[t][key.s] = value, !.ret = value]
            ELSE [S EXCEPT !.ret = Null]

\* Step.prototype.vars(key, value), on step h of Task t.  (The name vars is
\* taken by the tuple of the model's variables.)
stepVars(S, t, h, arguments) ==
    LET len == Len(arguments)
        key == Arg(arguments, 0)
        value == Arg(arguments, 1)
    IN IF len = 1
       THEN [S EXCEPT !.ret = S.variables[t][key.s]]
       ELSE IF len = 2
            THEN [S EXCEPT !.variables[t][key.s] = value, !.ret = value]
            ELSE [S EXCEPT !.ret = Null]

-----------------------------------------------------------------------------
\* this.done, the default aggregation callback of parallel.
StepDone == Fn("Step.prototype.done")

\* result.push(r): the results in completion order.
ArrayPush(a, n, r) == Append(a, r)

\* result[n] = r on a JavaScript array: assigning past the end leaves holes.
ArraySet(a, n, r) ==
    IF n < Len(a)
    THEN [a EXCEPT ![n + 1] = r]
    ELSE a \o [i \in 1..(n - Len(a)) |-> Hole] \o <<r>>

\* callback.call(this, ...args) inside parallel: the step's own done, or a
\* function of the user's.
callCallback(S, p, args) ==
    LET par == S.pars[p]
        S1 == [S EXCEPT !.pars[p].fired = Append(@, args)]
    IN IF par.callback = StepDone
       THEN done(S1, par.root, args)
       ELSE [S1 EXCEPT !.stack = Append(@, Frame("aggr", par.root, p, 0))]

\* The done closure counting a failed branch as completed too.
parDoneCountsErrors(S, p, n, err, r) ==
    LET par == S.pars[p]
        completed == par.completed + 1
        S1 == [S EXCEPT !.pars[p].compl =
                            Append(@, [n |-> n, err |-> err, r |-> r]),
                        !.pars[p].completed = completed]
    IN IF Truthy(err)
       THEN callCallback(S1, p, <<err>>)
       ELSE LET result == ArraySet(par.result, n, r)
                S2 == [S1 EXCEPT !.pars[p].result = result]
            IN IF completed >= Len(par.arr)
               THEN callCallback(S2, p, <<Null, Arr(result)>>)
               ELSE S2

\* The done closure handing the callback the results one argument each.
parDoneSpreadsResults(S, p, n, err, r) ==
    LET par == S.pars[p]
        S1 == [S EXCEPT !.pars[p].compl =
                            Append(@, [n |-> n, err |-> err, r |-> r])]
    IN IF Truthy(err)
       THEN callCallback(S1, p, <<err>>)
       ELSE LET result == ArraySet(par.result, n, r)
                completed == par.completed + 1
                S2 == [S1 EXCEPT !.pars[p].result = result,
                                 !.pars[p].completed = completed]
            IN IF completed >= Len(par.arr)
               THEN callCallback(S2, p, <<Null>> \o result)
               ELSE S2

\* The done closure invoking the callback at the exact count only.
parDoneExactCount(S, p, n, err, r) ==
    LET par == S.pars[p]
        S1 == [S EXCEPT !.pars[p].compl =
                            Append(@, [n |-> n, err |-> err, r |-> r])]
    IN IF Truthy(err)
       THEN callCallback(S1, p, <<err>>)
       ELSE LET result == ArraySet(par.result, n, r)
                completed == par.completed + 1
                S2 == [S1 EXCEPT !.pars[p].result = result,
                                 !.pars[p].completed = completed]
            IN IF completed = Len(par.arr)
               THEN callCallback(S2, p, <<Null, Arr(result)>>)
               ELSE S2

\* The done closure of Step.prototype.parallel, bound to branch n.
parDone(S, p, n, err, r) ==
    LET par == S.pars[p]
        S1 == [S EXCEPT !.pars[p].compl =
                            Append(@, [n |-> n, err |-> err, r |-> r])]
    IN IF Truthy(err)
       THEN callCallback(S1, p, <<err>>)
       ELSE LET result == ArraySet(par.result, n, r)
                completed == par.completed + 1
                S2 == [S1 EXCEPT !.pars[p].result = result,
                                 !.pars[p].completed = completed]
            IN IF completed >= Len(par.arr)
               THEN callCallback(S2, p, <<Null, Arr(result)>>)
               ELSE S2

\* The each loop giving up once a branch has reported an error.
eachStopsOnError(S) ==
    LET f == S.stack[Len(S.stack)]
        par == S.pars[f.p]
        popped == SubSeq(S.stack, 1, Len(S.stack) - 1)
        failed == \E i \in 1..Len(par.compl) : Truthy(par.compl[i].err)
    IN IF f.n >= Len(par.arr) \/ failed
       THEN [S EXCEPT !.stack = popped]
       ELSE IF par.byFunction /\ ~isFunction(par.arr[f.n + 1])
            THEN [S EXCEPT !.thrown =
                      "Every element should be a function as the first one does.",
                           !.pars[f.p].thrown = TRUE]
            ELSE IF ~par.byFunction /\ ~isFunction(par.iterator)
                 THEN [S EXCEPT !.thrown = "iterator is not a function",
                                !.pars[f.p].thrown = TRUE]
                 ELSE [S EXCEPT
                         !.stack = Append(popped, [f EXCEPT !.n = f.n + 1])
                                       \o <<Frame("branch", f.h, f.p, f.n)>>,
                         !.pars[f.p].dispatched = f.n + 1,
                         !.pars[f.p].order = Append(@, f.n)]

\* The each loop of parallel, entered with its frame on top of the stack:
\* it dispatches the next branch, which is user code, or ends.
each(S) ==
    LET f == S.stack[Len(S.stack)]
        par == S.pars[f.p]
        popped == SubSeq(S.stack, 1, Len(S.stack) - 1)
    IN IF f.n >= Len(par.arr)
       THEN [S EXCEPT !.stack = popped]
       ELSE IF par.byFunction /\ ~isFunction(par.arr[f.n + 1])
            THEN [S EXCEPT !.thrown =
                      "Every element should be a function as the first one does.",
                           !.pars[f.p].thrown = TRUE]
            ELSE IF ~par.byFunction /\ ~isFunction(par.iterator)
                 THEN [S EXCEPT !.thrown = "iterator is not a function",
                                !.pars[f.p].thrown = TRUE]
                 ELSE [S EXCEPT
                         !.stack = Append(popped, [f EXCEPT !.n = f.n + 1])
                                       \o <<Frame("branch", f.h, f.p, f.n)>>,
                         !.pars[f.p].dispatched = f.n + 1,
                         !.pars[f.p].order = Append(@, f.n)]

\* parallel completing at once when there is nothing to dispatch.
parallelEmptyCompletes(S, h, arguments) ==
    LET arr == Arg(arguments, 0).a
        args == slice(arguments, 1)
        byFunction == isFunction(Arg(arr, 0))
        given == IF byFunction THEN Arg(args, 0) ELSE Arg(args, 1)
        par == [root |-> h, arr |-> arr, byFunction |-> byFunction,
                iterator |-> IF byFunction THEN Undefined ELSE Arg(args, 0),
                callback |-> IF isFunction(given) THEN given ELSE StepDone,
                completed |-> 0, result |-> <<>>, dispatched |-> 0,
                fired |-> <<>>, compl |-> <<>>, thrown |-> FALSE,
                order |-> <<>>]
        p == Len(S.pars) + 1
        S1 == [S EXCEPT !.pars = Append(@, par)]
    IN IF Len(arr) = 0
       THEN callCallback(S1, p, <<Null, Arr(<<>>)>>)
       ELSE each([S1 EXCEPT !.stack = Append(@, Frame("each", h, p, 0))])

\* Step.prototype.parallel(arr, iterator, callback)
parallel(S, h, arguments) ==
    LET arr == Arg(arguments, 0).a
        args == slice(arguments, 1)
        byFunction == isFunction(Arg(arr, 0))
        given == IF byFunction THEN Arg(args, 0) ELSE Arg(args, 1)
        par == [root |-> h, arr |-> arr, byFunction |-> byFunction,
                iterator |-> IF byFunction THEN Undefined ELSE Arg(args, 0),
                callback |-> IF isFunction(given) THEN given ELSE StepDone,
                completed |-> 0, result |-> <<>>, dispatched |-> 0,
                fired |-> <<>>, compl |-> <<>>, thrown |-> FALSE,
                order |-> <<>>]
        p == Len(S.pars) + 1
    IN each([S EXCEPT !.pars = Append(@, par),
                      !.stack = Append(@, Frame("each", h, p, 0))])

-----------------------------------------------------------------------------
\* A call of user code into Step.js: the method, the handle it is made on,
\* its arguments, for a completion callback of parallel the call p and the
\* branch n, and the message of the Error it raised ("" for none).
\* t is the Task the handle belongs to and ret the value the call returned.
Call(op, h, args, p, n, thrown) ==
    [op |-> op, h |-> h, args |-> args, p |-> p, n |-> n, thrown |-> thrown,
     t |-> Main, ret |-> Undefined]
NoCall == Call("none", 0, <<>>, 0, 0, "")

\* The state after construction: the steps are declared, nothing has run.
Init ==
    /\ nSteps \in 1..MaxSteps
    /\ currIndex = 0
    /\ emitted = <<>>
    /\ runs = <<>>
    /\ stack = <<>>
    /\ pars = <<>>
    /\ cbCalls = <<>>
    /\ calls = 0
    /\ nextCalls = [h \in 0..(nSteps - 1) |-> 0]
    /\ otherCalls = 0
    /\ last = NoCall
    /\ variables = [t \in Tasks |-> [k \in VarKeys |-> Undefined]]
    /\ results = [t \in Tasks |-> <<>>]
    /\ written = [t \in Tasks |-> [k \in VarKeys |-> Undefined]]
    /\ handed = [t \in Tasks |-> <<>>]

\* The same for a task of up to MaxSkipSteps steps.
SkipInit ==
    /\ nSteps \in 1..MaxSkipSteps
    /\ currIndex = 0
    /\ emitted = <<>>
    /\ runs = <<>>
    /\ stack = <<>>
    /\ pars = <<>>
    /\ cbCalls = <<>>
    /\ calls = 0
    /\ nextCalls = [h \in 0..(nSteps - 1) |-> 0]
    /\ otherCalls = 0
    /\ last = NoCall
    /\ variables = [t \in Tasks |-> [k \in VarKeys |-> Undefined]]
    /\ results = [t \in Tasks |-> <<>>]
    /\ written = [t \in Tasks |-> [k \in VarKeys |-> Undefined]]
    /\ handed = [t \in Tasks |-> <<>>]

\* The frames an exception can be caught in: user code, or nobody.
CatchDepths(S) ==
    {0} \cup {k \in 1..Len(S.stack) : S.stack[k].k \in UserKinds}

\* The variables after a call that took the machine to S.  A call that
\* threw unwinds the stack to the frame that catches the exception.
Commit(S, c) ==
    /\ currIndex' = S.currIndex
    /\ emitted' = S.emitted
    /\ runs' = S.runs
    /\ pars' = S.pars
    /\ cbCalls' = S.cbCalls
    /\ variables' = S.variables
    /\ results' = S.results
    /\ last' = [c EXCEPT !.thrown = S.thrown, !.ret = S.ret]
    /\ calls' = calls + 1
    /\ IF c.op = "next"
       THEN nextCalls' = [nextCalls EXCEPT ![c.h] = @ + 1]
                /\ UNCHANGED otherCalls
       ELSE IF c.op \in {"vars", "fulfill"}
            THEN UNCHANGED <<nextCalls, otherCalls>>
            ELSE otherCalls' = otherCalls + 1 /\ UNCHANGED nextCalls
    /\ IF c.op = "vars" /\ Len(c.args) = 2
       THEN written' = [written EXCEPT ![c.t][c.args[1].s] = c.args[2]]
       ELSE UNCHANGED written
    /\ IF c.op = "fulfill"
       THEN handed' = [handed EXCEPT ![c.t] = @ \o c.args]
       ELSE UNCHANGED handed
    /\ IF S.thrown = ""
       THEN stack' = S.stack
       ELSE \E k \in CatchDepths(S) : stack' = SubSeq(S.stack, 1, k)
    /\ UNCHANGED nSteps

-----------------------------------------------------------------------------
\* The inputs user code passes.
ArgLists == {<<>>, <<Str("a"), Str("b")>>}
ErrVals == {Undefined, Null, False, Str("e1")}
\* What a branch passes to its completion callback: (err) or (null, r).
Completions ==
    {<<Null, Str("x")>>, <<Null, Str("y")>>,
     <<Str("e1"), Undefined>>, <<Str("e2"), Undefined>>}
JumpRefs ==
    {Undefined, Null, Str("nope")}
        \cup {Str(StepNames[i]) : i \in 1..nSteps}
        \cup {Num(i) : i \in (0 - MaxSteps)..MaxSteps}
VarVals == {Num(10), Num(20)}
\* The argument lists of vars: none, a key, a key and a value, and one more.
VarArgs ==
    {<<>>, <<Str("x"), Num(10), Num(20)>>}
        \cup {<<Str(k)>> : k \in VarKeys}
        \cup {<<Str(k), v>> : k \in VarKeys, v \in VarVals}
FulfillArgs == {<<>>, <<Num(10)>>, <<Num(20), Num(10)>>}
\* Step references by number: absolute indexes and offsets back.
SkipRefs == {Num(i) : i \in (0 - MaxSkipSteps)..MaxSkipSteps}
Items(len, first, other) ==
    Arr([i \in 1..len |-> IF i = 1 THEN first ELSE other])
\* The argument lists of parallel: functions with or without a callback,
\* values with an iterator and with or without a callback, and the two
\* malformed shapes: a non-function after a function, and no iterator.
ParArgs ==
    {<<Items(len, Fn("f"), Fn("f"))>> \o rest :
        len \in 0..MaxBranches, rest \in {<<>>, <<Fn("agg")>>}}
    \cup {<<Items(len, Str("v"), Str("v"))>> \o rest :
        len \in 0..MaxBranches,
        rest \in {<<>>, <<Fn("it")>>, <<Fn("it"), Fn("agg")>>}}
    \cup {<<Items(len, Fn("f"), Str("v")), Fn("agg")>> : len \in 2..MaxBranches}

\* The handles user code holds: the steps whose handler has been invoked.
Live == {runs[i].index : i \in 1..Len(runs)}

\* The code that is running: the innermost frame, or, with the stack
\* empty, a callback of the event loop (a timer, an I/O completion).
Top == stack[Len(stack)]
InUserCode == IF Len(stack) = 0 THEN TRUE ELSE Top.k \in UserKinds

\* The handles the running code calls: its own this, or, from the event
\* loop, any handle captured earlier.
Handles == IF Len(stack) = 0 THEN Live ELSE {Top.h}

\* The other Task runs elsewhere; user code holds the Step of its first
\* step and calls it from wherever it runs.
HandlesOf(t) == IF t = Main THEN Handles ELSE {0}

\* The task is run: task._run(0).
Start ==
    /\ runs = <<>>
    /\ LET S == _run(Cur, 0, <<>>) IN
        /\ currIndex' = S.currIndex
        /\ runs' = S.runs
        /\ stack' = S.stack
    /\ UNCHANGED <<nSteps, emitted, pars, cbCalls, calls, nextCalls,
                   otherCalls, last, variables, results, written, handed>>

CallNext(h, args) ==
    Commit(next(Cur, h, args), Call("next", h, args, 0, 0, ""))

CallEnd(h, err) ==
    Commit(end(Cur, h, err), Call("end", h, <<err>>, 0, 0, ""))

CallJump(h, args) ==
    Commit(jump(Cur, h, args), Call("jump", h, args, 0, 0, ""))

CallDone(h, args) ==
    Commit(done(Cur, h, args), Call("done", h, args, 0, 0, ""))

CallParallel(h, args) ==
    Commit(parallel(Cur, h, args), Call("parallel", h, args, 0, 0, ""))

CallVars(t, h, args) ==
    Commit(stepVars(Cur, t, h, args),
           [Call("vars", h, args, 0, 0, "") EXCEPT !.t = t])

CallFulfill(t, h, args) ==
    Commit(fulfill(Cur, t, h, args),
           [Call("fulfill", h, args, 0, 0, "") EXCEPT !.t = t])

\* A branch of parallel p invokes the completion callback it was given.
CallComplete(p, n, err, r) ==
    /\ n < pars[p].dispatched
    /\ Commit(parDone(Cur, p, n, err, r),
              Call("complete", pars[p].root, <<err, r>>, p, n, ""))

\* The running user code returns.  Under a branch of parallel the each
\* loop goes on with the next branch.
Return ==
    /\ Len(stack) > 0
    /\ Top.k \in UserKinds
    /\ LET popped == [Cur EXCEPT !.stack = SubSeq(stack, 1, Len(stack) - 1)]
           S == IF Len(popped.stack) > 0
                   /\ popped.stack[Len(popped.stack)].k = "each"
                THEN each(popped)
                ELSE popped
       IN /\ pars' = S.pars
          /\ IF S.thrown = ""
             THEN stack' = S.stack
             ELSE \E k \in CatchDepths(S) : stack' = SubSeq(S.stack, 1, k)
    /\ UNCHANGED <<nSteps, currIndex, emitted, runs, cbCalls, calls, nextCalls,
                   otherCalls, last, variables, results, written, handed>>

CanCall(max) == InUserCode /\ calls < max

\* Flow control: handlers and their callbacks call next, end, jump and done.
Next ==
    \/ Start
    \/ Return
    \/ \E h \in Handles, args \in ArgLists :
          CanCall(MaxCalls) /\ CallNext(h, args)
    \/ \E h \in Handles, err \in ErrVals :
          CanCall(MaxCalls) /\ CallEnd(h, err)
    \/ \E h \in Handles, ref \in JumpRefs, args \in ArgLists :
          /\ CanCall(MaxCalls)
          /\ CallJump(h, IF ref = Undefined THEN <<>> ELSE <<ref>> \o args)
    \/ \E h \in Handles, err \in ErrVals, cb \in {<<>>, <<Fn("cb")>>},
          args \in ArgLists :
          CanCall(MaxCalls) /\ CallDone(h, <<err>> \o cb \o args)

Spec == Init /\ [][Next]_vars

\* Fan-out: a handler or one of its callbacks calls parallel (one call in a
\* run), its branches complete, and next and end are called besides.
ParNext ==
    \/ Start
    \/ Return
    \/ \E h \in Handles, args \in ParArgs :
          /\ CanCall(MaxParCalls)
          /\ Len(pars) = 0
          /\ CallParallel(h, args)
    \/ \E p \in 1..Len(pars), n \in 0..(MaxBranches - 1), c \in Completions :
          CanCall(MaxParCalls) /\ CallComplete(p, n, c[1], c[2])
    \/ \E h \in Handles : CanCall(MaxParCalls) /\ CallNext(h, <<>>)
    \/ \E h \in Handles : CanCall(MaxParCalls) /\ CallEnd(h, Undefined)

ParSpec == Init /\ [][ParNext]_vars

\* Shared state: steps of either Task call vars and fulfill, and the steps
\* of the Task that runs call next besides.
DataNext ==
    \/ Start
    \/ Return
    \/ \E t \in Tasks : \E h \in HandlesOf(t), args \in VarArgs :
          CanCall(MaxDataCalls) /\ CallVars(t, h, args)
    \/ \E t \in Tasks : \E h \in HandlesOf(t), args \in FulfillArgs :
          CanCall(MaxDataCalls) /\ CallFulfill(t, h, args)
    \/ \E h \in Handles : CanCall(MaxDataCalls) /\ CallNext(h, <<>>)

DataSpec == Init /\ [][DataNext]_vars

\* Stale handles: in a longer task handlers and late callbacks call next
\* and jump on handles whose step the cursor may have left.
SkipNext ==
    \/ Start
    \/ Return
    \/ \E h \in Handles, args \in ArgLists :
          CanCall(MaxSkipCalls) /\ CallNext(h, args)
    \/ \E h \in Handles, ref \in SkipRefs :
          CanCall(MaxSkipCalls) /\ CallJump(h, <<ref>>)

SkipSpec == SkipInit /\ [][SkipNext]_vars

-----------------------------------------------------------------------------
\* Properties.

\* A call was just made: the step from the unprimed to the primed state is
\* the call last' describes.
Called(op) == calls' = calls + 1 /\ last'.op = op

\* The claims' reading of a step reference at cursor cur: a string is a
\* step name, a number from 0 up an absolute index, a negative number an
\* offset from the cursor.  NotFound when it names no step.
RefIndex(ref, cur) ==
    LET i == IF ref.k = "string"
             THEN IF \E j \in 1..nSteps : StepNames[j] = ref.s
                  THEN (CHOOSE j \in 1..nSteps : StepNames[j] = ref.s) - 1
                  ELSE NotFound
             ELSE IF ref.k = "number"
                  THEN IF ref.n >= 0 THEN ref.n ELSE cur + ref.n
                  ELSE NotFound
    IN IF i \in 0..(nSteps - 1) THEN i ELSE NotFound

\* C1: in a run where the only calls are next(), at most one on each step's
\* handle, the handlers have been invoked in index order 0, 1, ...; once
\* all N handlers have called next() the task has emitted done exactly
\* once, with err = null, after exactly N invocations, and not before.
C1_NextChainEndsWithNull ==
    (otherCalls = 0 /\ Len(runs) > 0 /\ \A h \in 0..(nSteps - 1) : nextCalls[h] <= 1)
        => /\ \A i \in 1..Len(runs) : runs[i].index = i - 1
           /\ Len(runs) = (IF calls < nSteps THEN calls + 1 ELSE nSteps)
           /\ emitted = (IF calls = nSteps THEN <<Null>> ELSE <<>>)

\* C1 witness: every handler of a task of MaxSteps steps has called next()
\* once, and nothing else was called; the task has ended with null.
C1_Witness ==
    /\ nSteps = MaxSteps
    /\ otherCalls = 0
    /\ \A h \in 0..(nSteps - 1) : nextCalls[h] = 1
    /\ Len(runs) = nSteps
    /\ emitted = <<Null>>

\* C2: the task emits its terminal done signal at most once.
C2_DoneEmittedAtMostOnce == Len(emitted) <= 1

\* C3: once done has been emitted, a later done, next or jump invokes no
\* step handler and leaves currentIndex unchanged.
C3_NoAdvanceAfterDone ==
    [][(Len(emitted) > 0 /\ (Called("done") \/ Called("next") \/ Called("jump")))
          => (runs' = runs /\ currIndex' = currIndex)]_vars

\* C4: done with a truthy err emits done with that err and does nothing
\* else: no continuation is invoked (neither a supplied callback nor
\* next), no handler runs, the cursor stays.
C4_DoneWithErrorEnds ==
    [][(Called("done") /\ Truthy(Arg(last'.args, 0)))
          => /\ emitted' = Append(emitted, Arg(last'.args, 0))
             /\ cbCalls' = cbCalls
             /\ runs' = runs
             /\ currIndex' = currIndex
             /\ stack' = stack
             /\ last'.thrown = ""]_vars

\* C4 witness: done was just called with a truthy err and a callback; the
\* err was emitted and no continuation has ever been invoked.
C4_Witness ==
    /\ last.op = "done"
    /\ Truthy(Arg(last.args, 0))
    /\ isFunction(Arg(last.args, 1))
    /\ Len(emitted) > 0
    /\ emitted[Len(emitted)] = Arg(last.args, 0)
    /\ cbCalls = <<>>

\* The completion callbacks invoked so far on parallel call p.
Compl(p) == pars[p].compl
Errors(p) == {i \in 1..Len(Compl(p)) : Truthy(Compl(p)[i].err)}
\* No branch has invoked its completion callback twice.
AtMostOnce(p) ==
    \A i, j \in 1..Len(Compl(p)) : Compl(p)[i].n = Compl(p)[j].n => i = j
\* Every one of the N >= 1 branches has invoked it exactly once.
AllOnce(p) ==
    /\ Len(pars[p].arr) >= 1
    /\ AtMostOnce(p)
    /\ Len(Compl(p)) = Len(pars[p].arr)
\* The results by branch index: what branch i - 1 passed as its result.
ByIndex(p) ==
    [i \in 1..Len(pars[p].arr) |->
        Compl(p)[CHOOSE j \in 1..Len(Compl(p)) : Compl(p)[j].n = i - 1].r]

\* C5: when every branch of a parallel call has completed exactly once, the
\* aggregation callback has been invoked exactly once: with the first error
\* observed if a branch failed, with (null, results) otherwise.
C5_AggregationOnce ==
    \A p \in 1..Len(pars) :
        AllOnce(p) =>
            /\ Len(pars[p].fired) = 1
            /\ pars[p].fired[1] =
                  (IF Errors(p) # {}
                   THEN <<Compl(p)[CHOOSE i \in Errors(p) :
                                      \A j \in Errors(p) : i <= j].err>>
                   ELSE <<Null, Arr(ByIndex(p))>>)

\* C6: while no branch has completed twice and exactly one branch has
\* reported an error, the aggregation callback has been invoked exactly
\* once, with that error, however many other branches have succeeded
\* before or after it.
C6_SingleErrorOnce ==
    \A p \in 1..Len(pars) :
        (AtMostOnce(p) /\ Cardinality(Errors(p)) = 1)
            => pars[p].fired =
                  << <<Compl(p)[CHOOSE i \in Errors(p) : TRUE].err>> >>

\* C6 witness: of two or more branches the first to complete failed, the
\* others then succeeded, and the callback was invoked once.
C6_Witness ==
    \E p \in 1..Len(pars) :
        /\ AllOnce(p)
        /\ Len(pars[p].arr) >= 2
        /\ Errors(p) = {1}
        /\ Len(pars[p].fired) = 1

\* C7: when every branch has completed successfully exactly once, the
\* aggregation callback has been invoked once with (null, results), the
\* results of length N with branch i's result at position i, whatever the
\* order of completion and whichever the calling shape.
C7_ResultsByIndex ==
    \A p \in 1..Len(pars) :
        (AllOnce(p) /\ Errors(p) = {})
            => /\ pars[p].fired = << <<Null, Arr(ByIndex(p))>> >>
               /\ Len(pars[p].result) = Len(pars[p].arr)
               /\ \A i \in 1..Len(Compl(p)) :
                     pars[p].result[Compl(p)[i].n + 1] = Compl(p)[i].r

\* C7 witness: values with an iterator; the last branch completed first,
\* with a result other than the one completed last.
C7_Witness ==
    \E p \in 1..Len(pars) :
        /\ AllOnce(p)
        /\ Errors(p) = {}
        /\ ~pars[p].byFunction
        /\ Len(pars[p].arr) = MaxBranches
        /\ Compl(p)[1].n = MaxBranches - 1
        /\ Compl(p)[1].r # Compl(p)[Len(Compl(p))].r
        /\ Len(pars[p].fired) = 1

\* C8: a jump whose reference names a step (by name, by absolute index, or
\* by a negative offset -k as currentIndex - k) runs that step with the
\* trailing arguments when it is not the current one, and does nothing at
\* all when it is.
C8_JumpResolves ==
    [][(Called("jump") /\ Len(last'.args) > 0
            /\ RefIndex(Arg(last'.args, 0), currIndex) # NotFound)
          => LET target == RefIndex(Arg(last'.args, 0), currIndex) IN
             /\ last'.thrown = ""
             /\ emitted' = emitted
             /\ IF target # currIndex
                THEN /\ currIndex' = target
                     /\ runs' = Append(runs, [index |-> target,
                                              args |-> slice(last'.args, 1)])
                ELSE /\ currIndex' = currIndex
                     /\ runs' = runs
                     /\ stack' = stack]_vars

\* C8 witness: jump(-1, ...args) at step 1 has run step 0 with the args.
C8_Witness ==
    /\ last.op = "jump"
    /\ Arg(last.args, 0) = Num(-1)
    /\ Len(last.args) > 1
    /\ Len(runs) >= 3
    /\ runs[Len(runs) - 1].index = 1
    /\ runs[Len(runs)] = [index |-> 0, args |-> slice(last.args, 1)]
    /\ currIndex = 0

\* C9: a jump whose reference is omitted or names no step raises an Error
\* and changes nothing: the cursor stays, no handler is invoked, no done
\* is emitted.
C9_BadJumpThrows ==
    [][(Called("jump")
            /\ (Len(last'.args) = 0
                  \/ RefIndex(Arg(last'.args, 0), currIndex) = NotFound))
          => /\ last'.thrown # ""
             /\ currIndex' = currIndex
             /\ runs' = runs
             /\ emitted' = emitted
             /\ cbCalls' = cbCalls]_vars

\* C9 witness: jump(-2) at step 1, which lands below step 0, has thrown.
C9_Witness ==
    /\ last.op = "jump"
    /\ Arg(last.args, 0) = Num(-2)
    /\ currIndex = 1
    /\ last.thrown # ""
    /\ runs[Len(runs)].index = 1

\* C10: done with a falsy err invokes exactly one continuation with the
\* trailing arguments: the function given as second argument, bound to
\* the step, and then nothing else happens; or else next, which runs the
\* following step or, on the last step, emits done with null.
C10_DoneContinues ==
    [][(Called("done") /\ ~Truthy(Arg(last'.args, 0)))
          => LET given == isFunction(Arg(last'.args, 1))
                 rest == slice(last'.args, IF given THEN 2 ELSE 1)
             IN /\ last'.thrown = ""
                /\ IF given
                   THEN /\ cbCalls' = Append(cbCalls, [h |-> last'.h,
                                                       args |-> rest])
                        /\ runs' = runs
                        /\ currIndex' = currIndex
                        /\ emitted' = emitted
                   ELSE /\ cbCalls' = cbCalls
                        /\ IF currIndex + 1 < nSteps
                           THEN /\ runs' = Append(runs,
                                       [index |-> currIndex + 1, args |-> rest])
                                /\ currIndex' = currIndex + 1
                                /\ emitted' = emitted
                           ELSE /\ runs' = runs
                                /\ currIndex' = currIndex
                                /\ emitted' = Append(emitted, Null)]_vars

\* C10 witness: done(undefined, cb, a, b) has called cb(a, b) on the step
\* and cb is running; no done signal was emitted.
C10_Witness ==
    /\ last.op = "done"
    /\ last.args = <<Undefined, Fn("cb"), Str("a"), Str("b")>>
    /\ cbCalls # <<>>
    /\ cbCalls[Len(cbCalls)] = [h |-> last.h, args |-> <<Str("a"), Str("b")>>]
    /\ emitted = <<>>
    /\ stack # <<>>
    /\ stack[Len(stack)] = Frame("cb", last.h, 0, 0)

\* C11: vars(k, v) on a step of a Task, followed after any step transitions
\* and writes of other keys by vars(k) on a step of the same Task, returns
\* v: a read returns the value of the latest vars(k, v) call made on that
\* Task, whichever steps made the calls and whatever was written through
\* another Task.  A write returns the written value and leaves the stores of
\* the other Tasks alone; a call of any other arity returns null and leaves
\* every store unchanged.
C11_VarsReadsLatestWrite ==
    [][Called("vars") =>
         LET c == last'
             len == Len(c.args)
         IN IF len = 1
            THEN /\ c.ret = written[c.t][c.args[1].s]
                 /\ variables' = variables
            ELSE IF len = 2
                 THEN /\ c.ret = c.args[2]
                      /\ \A u \in Tasks \ {c.t} : variables'[u] = variables[u]
                 ELSE /\ c.ret = Null
                      /\ variables' = variables]_vars

\* C11 witness: vars("x") on the Task returns the 10 written to it although
\* the other Task holds 20 under the same key.
C11_Witness ==
    /\ last.op = "vars"
    /\ last.t = Main
    /\ last.args = <<Str("x")>>
    /\ last.ret = Num(10)
    /\ written[Main]["x"] = Num(10)
    /\ variables["other"]["x"] = Num(20)

\* C12: a Task's accumulated results are the values passed to fulfill on
\* its steps, every value once, in the order of the calls and within a call
\* in argument order, whichever steps made the calls.
C12_ResultsInEmissionOrder ==
    \A t \in Tasks : results[t] = handed[t]

\* C12 witness: fulfill(10) and then, on the handle of the second step,
\* fulfill(20, 10) left the Task with the results [10, 20, 10].
C12_Witness ==
    /\ last.op = "fulfill"
    /\ last.t = Main
    /\ last.h = 1
    /\ last.args = <<Num(20), Num(10)>>
    /\ results[Main] = <<Num(10), Num(20), Num(10)>>
    /\ results["other"] = <<>>

\* No flow-control call has been made in the primed state.
NoFlowCallYet ==
    /\ otherCalls' = 0
    /\ \A h \in DOMAIN nextCalls' : nextCalls'[h] = 0

\* C13: fulfill and vars do not affect flow control.  A call of fulfill or
\* of vars leaves the cursor where it is, invokes no handler (the record of
\* handler invocations and the call stack are unchanged) and emits no done
\* signal; the cursor moves only in a next, jump or done call (or a
\* completion of parallel that reaches done), which invokes the handler of
\* the step it moves to; and as long as the only calls made are fulfill and
\* vars the Task stays in its first step without a done signal.
C13_DataCallsLeaveFlowAlone ==
    [][/\ Called("fulfill") \/ Called("vars") =>
              /\ currIndex' = currIndex
              /\ runs' = runs
              /\ stack' = stack
              /\ emitted' = emitted
       /\ currIndex' # currIndex =>
              /\ calls' = calls + 1
              /\ last'.op \in {"next", "jump", "done", "complete"}
              /\ Len(runs') = Len(runs) + 1
              /\ runs'[Len(runs')].index = currIndex'
       /\ NoFlowCallYet =>
              /\ currIndex' = 0
              /\ Len(runs') <= 1
              /\ emitted' = <<>>]_vars

\* C13 witness: the first step of a two-step task has made two calls,
\* fulfill the latest, and none of done, next, jump and end: the Task is
\* still in its first step and has emitted nothing.
C13_Witness ==
    /\ nSteps = 2
    /\ calls >= 2
    /\ last.op = "fulfill"
    /\ last.t = Main
    /\ last.args # <<>>
    /\ otherCalls = 0
    /\ \A h \in DOMAIN nextCalls : nextCalls[h] = 0
    /\ currIndex = 0
    /\ runs = <<[index |-> 0, args |-> <<>>]>>
    /\ emitted = <<>>

\* A branch of a parallel call made without a callback completes: parallel
\* calls done on the step for it.
CalledDoneByParallel ==
    /\ Called("complete")
    /\ pars[last'.p].callback = StepDone

\* C14: transitions between steps are strictly sequential.  Once the task
\* is running a handler is invoked only within a done, next or jump call
\* made on a step handle (by user code, or by parallel calling the step's
\* done as its default callback), one handler per call; any other step of
\* the machine, a handler returning in particular, leaves the cursor and
\* the record of handler invocations as they are, so a handler that returns
\* without such a call leaves the Task suspended at its step.
C14_HandlerOnlyOnFlowCall ==
    [][/\ runs # <<>> /\ runs' # runs =>
              /\ \/ Called("done") \/ Called("next") \/ Called("jump")
                 \/ CalledDoneByParallel
              /\ Len(runs') = Len(runs) + 1
              /\ SubSeq(runs', 1, Len(runs)) = runs
       /\ calls' = calls /\ runs # <<>> =>
              /\ runs' = runs
              /\ currIndex' = currIndex
              /\ emitted' = emitted]_vars

\* C14 witness: the first handler returned without a call and the Task
\* stayed at step 0; a later next() on its handle invoked the second
\* handler, the only code running now.
C14_Witness ==
    /\ calls = 1
    /\ last.op = "next"
    /\ last.h = 0
    /\ Len(runs) = 2
    /\ currIndex = 1
    /\ stack = <<Frame("handler", 1, 0, 0)>>

\* The number of step handlers that were entered and have not returned.
HandlerDepth(s) == Cardinality({i \in 1..Len(s) : s[i].k = "handler"})

\* C15: at every moment at most one step handler's synchronous body is
\* executing: no handler is entered while another one has not returned.
C15_OneHandlerAtATime == HandlerDepth(stack) <= 1

\* C15, amended: the handlers that have not returned are nested synchronous
\* calls.  Once the task runs, a handler is entered only by a call that
\* moves the cursor to another step, and it runs on top of the code that
\* made the call, which goes on only after it returns; entered by a call
\* made after every handler returned, it is the only handler executing.
C15_HandlersNest ==
    [][runs # <<>> /\ runs' # runs =>
          /\ currIndex' # currIndex
          /\ stack' = Append(stack, Frame("handler", currIndex', 0, 0))
          /\ HandlerDepth(stack) = 0 => HandlerDepth(stack') = 1]_vars

\* C15 witness: the first handler called next() before returning, and the
\* second handler runs inside that call.
C15_Witness ==
    /\ last.op = "next"
    /\ last.h = 0
    /\ stack = <<Frame("handler", 0, 0, 0), Frame("handler", 1, 0, 0)>>

\* C16: parallel called without a callback aggregates into the step's own
\* done.  When a branch completion makes it so that every one of the
\* N >= 1 branches has completed once and successfully, the Task moves to
\* the step following its cursor and invokes the handler with the results
\* by branch index as the single argument, or emits done with null when
\* the cursor is at the last step; when a branch reports an error the Task
\* emits done with that error and invokes no handler.
C16_DefaultCallbackIsDone ==
    [][Called("complete") /\ pars[last'.p].callback = StepDone =>
         LET par == pars'[last'.p]
             compl == par.compl
             N == Len(par.arr)
             err == last'.args[1]
             allOk == /\ Len(compl) = N
                      /\ \A i \in 1..N : ~Truthy(compl[i].err)
                      /\ \A i, j \in 1..N : compl[i].n = compl[j].n => i = j
             res == [i \in 1..N |->
                        compl[CHOOSE j \in 1..N : compl[j].n = i - 1].r]
         IN IF Truthy(err)
            THEN /\ emitted' = Append(emitted, err)
                 /\ runs' = runs
                 /\ currIndex' = currIndex
            ELSE allOk =>
                   IF currIndex + 1 < nSteps
                   THEN /\ runs' = Append(runs, [index |-> currIndex + 1,
                                                 args |-> <<Arr(res)>>])
                        /\ currIndex' = currIndex + 1
                        /\ emitted' = emitted
                   ELSE /\ emitted' = Append(emitted, Null)
                        /\ runs' = runs
                        /\ currIndex' = currIndex]_vars

\* C16 witness: the first step called parallel without a callback; its two
\* branches completed with different results, the second one first, and
\* the second step's handler was invoked with the results by index.
C16_Witness ==
    /\ last.op = "complete"
    /\ Len(pars) = 1
    /\ pars[1].callback = StepDone
    /\ pars[1].root = 0
    /\ Len(pars[1].arr) = 2
    /\ pars[1].compl = <<[n |-> 1, err |-> Null, r |-> Str("y")],
                         [n |-> 0, err |-> Null, r |-> Str("x")]>>
    /\ runs = <<[index |-> 0, args |-> <<>>],
                [index |-> 1, args |-> <<Arr(<<Str("x"), Str("y")>>)>>]>>
    /\ currIndex = 1
    /\ emitted = <<>>

\* The each loop of parallel call p is on the stack: the call has not
\* returned yet.
Dispatching(p) == \E k \in 1..Len(stack) : stack[k].k = "each" /\ stack[k].p = p

\* Every element is a function, or there is an iterator for the values.
WellFormed(p) ==
    IF pars[p].byFunction
    THEN \A i \in 1..Len(pars[p].arr) : isFunction(pars[p].arr[i])
    ELSE isFunction(pars[p].iterator)

\* C17: parallel dispatches every one of its N branches exactly once, in
\* index order, during the parallel call itself: at any moment the branches
\* dispatched are 0, 1, ... in that order, a branch has completed only after
\* it was dispatched, and once the call has returned all N have been
\* dispatched, whatever completions and errors the branches have reported
\* in the meantime.
C17_DispatchAllInOrder ==
    \A p \in 1..Len(pars) :
        WellFormed(p) =>
            /\ \A i \in 1..Len(pars[p].order) : pars[p].order[i] = i - 1
            /\ Len(pars[p].order) <= Len(pars[p].arr)
            /\ \A i \in 1..Len(Compl(p)) : Compl(p)[i].n < Len(pars[p].order)
            /\ ~Dispatching(p) => Len(pars[p].order) = Len(pars[p].arr)

\* C17 witness: the first of two branches reported an error before it
\* returned; the second branch was dispatched all the same and has
\* completed, still within the parallel call.
C17_Witness ==
    \E p \in 1..Len(pars) :
        /\ Dispatching(p)
        /\ pars[p].order = <<0, 1>>
        /\ Compl(p) = <<[n |-> 0, err |-> Str("e1"), r |-> Undefined],
                        [n |-> 1, err |-> Null, r |-> Str("x")]>>

\* C18: next, the self-jump test and the negative offsets of jump are
\* evaluated against the Task's cursor at the time of the call, whatever
\* step the handle the call is made on belongs to.  next() runs the step
\* after the cursor with the arguments given, or emits done with null when
\* the cursor is at the last step; jump(n) resolves a negative n from the
\* cursor, does nothing when the target is the cursor, runs the target
\* otherwise and throws when there is no such step.
C18_CursorNotHandle ==
    [][/\ Called("next") =>
              IF currIndex + 1 < nSteps
              THEN /\ runs' = Append(runs, [index |-> currIndex + 1,
                                            args |-> last'.args])
                   /\ currIndex' = currIndex + 1
                   /\ emitted' = emitted
              ELSE /\ emitted' = Append(emitted, Null)
                   /\ runs' = runs
                   /\ currIndex' = currIndex
       /\ Called("jump") /\ Arg(last'.args, 0).k = "number" =>
              LET n == last'.args[1].n
                  target == IF n < 0 THEN currIndex + n ELSE n
              IN IF target \notin 0..(nSteps - 1)
                 THEN /\ last'.thrown # ""
                      /\ runs' = runs
                      /\ currIndex' = currIndex
                 ELSE IF target = currIndex
                      THEN /\ last'.thrown = ""
                           /\ runs' = runs
                           /\ currIndex' = currIndex
                      ELSE /\ last'.thrown = ""
                           /\ runs' = Append(runs,
                                  [index |-> target,
                                   args |-> slice(last'.args, 1)])
                           /\ currIndex' = target]_vars

\* C18 witness: the first handler of a three-step task has called next()
\* twice; the second call, made with the cursor at step 1, started step 2
\* although step 1 has signalled nothing.
C18_Witness ==
    /\ nSteps = 3
    /\ last.op = "next"
    /\ last.h = 0
    /\ nextCalls = [h \in 0..2 |-> IF h = 0 THEN 2 ELSE 0]
    /\ otherCalls = 0
    /\ Len(runs) = 3
    /\ runs[2].index = 1
    /\ runs[3].index = 2
    /\ currIndex = 2
    /\ emitted = <<>>

\* C19: parallel called with an empty sequence of items dispatches no branch
\* and never invokes the aggregation callback, the supplied one or the
\* default done: the call changes nothing of the flow (no handler is
\* invoked, no done signal emitted, no user code entered), no completion
\* callback exists to be invoked afterwards, and as long as no flow-control
\* call is made besides it the Task stays in its step without a done
\* signal.
C19_EmptyParallelNeverCompletes ==
    [][/\ Called("parallel") /\ Len(last'.args[1].a) = 0 =>
              /\ last'.thrown = ""
              /\ stack' = stack
              /\ runs' = runs
              /\ currIndex' = currIndex
              /\ emitted' = emitted
       /\ \A p \in 1..Len(pars') :
              Len(pars'[p].arr) = 0 =>
                 /\ pars'[p].order = <<>>
                 /\ pars'[p].compl = <<>>
                 /\ pars'[p].fired = <<>>
                 /\ (otherCalls' = 1 /\ \A h \in DOMAIN nextCalls' :
                                           nextCalls'[h] = 0)
                       => /\ emitted' = <<>>
                          /\ Len(runs') = 1
                          /\ currIndex' = 0]_vars

\* C19 witness: the first handler called parallel([], agg) and returned;
\* nothing was dispatched, agg was never invoked and the Task is still in
\* its first step.
C19_Witness ==
    /\ Len(pars) = 1
    /\ pars[1].arr = <<>>
    /\ pars[1].callback = Fn("agg")
    /\ pars[1].fired = <<>>
    /\ calls = 1
    /\ stack = <<>>
    /\ emitted = <<>>
    /\ currIndex = 0

\* The successful completions among the first k completion calls made on
\* parallel call p in the primed state.
Successes(p, k) == {i \in 1..k : ~Truthy(pars'[p].compl[i].err)}

\* C20: parallel counts successful invocations of the completion callbacks,
\* not distinct branches.  A successful invocation stores its result at the
\* branch's index and adds one to the count, whether or not that branch had
\* completed before; the aggregation callback is invoked with (null, results)
\* by every successful invocation that brings the count to the number of
\* items or beyond, and by no other, with the results as stored by then:
\* positions of branches that have not completed are unset.
C20_CountsInvocations ==
    [][Called("complete") /\ ~Truthy(last'.args[1]) =>
         LET p == last'.p
             n == last'.n
             r == last'.args[2]
             N == Len(pars[p].arr)
             count == Cardinality(Successes(p, Len(pars'[p].compl)))
         IN /\ pars'[p].completed = count
            /\ count = pars[p].completed + 1
            /\ pars'[p].result[n + 1] = r
            /\ \A i \in 1..Len(pars'[p].result) :
                  IF \E j \in Successes(p, Len(pars'[p].compl)) :
                        pars'[p].compl[j].n = i - 1
                  THEN pars'[p].result[i] # Hole
                  ELSE pars'[p].result[i] = Hole
            /\ IF count >= N
               THEN pars'[p].fired =
                        Append(pars[p].fired, <<Null, Arr(pars'[p].result)>>)
               ELSE pars'[p].fired = pars[p].fired]_vars

\* C20 witness: of two branches the second has invoked its completion
\* callback twice and the first never; the aggregation callback was invoked
\* by the second invocation, with the first position of the results unset.
C20_Witness ==
    \E p \in 1..Len(pars) :
        /\ Len(pars[p].arr) = 2
        /\ Len(pars[p].compl) = 2
        /\ \A i \in 1..2 : pars[p].compl[i].n = 1 /\ ~Truthy(pars[p].compl[i].err)
        /\ pars[p].completed = 2
        /\ pars[p].fired = << <<Null, Arr(<<Hole, pars[p].compl[2].r>>)>> >>

====
